---- MODULE Spec2Model ----
(***************************************************************************)
(* Fractional-indexing order keys: the key generator                       *)
(* generateFractionalIndexingKeyBetween and the sortable helper            *)
(* createFractionalIndexingSortableHelper (move, moveTo, insertBefore,     *)
(* getNewItemOrder) of packages/common/infra/src/utils/                    *)
(* fractional-indexing.ts.                                                 *)
(*                                                                         *)
(* A string is a sequence of digit values 0..61, the index of each         *)
(* character in "0-9A-Za-z", which is also its ASCII order, so JavaScript  *)
(* string comparison is lexicographic comparison of these sequences.       *)
(***************************************************************************)
EXTENDS Integers, Sequences, FiniteSets, TLC

\* ------------------------------------------------------------------------
\* Strings
\* ------------------------------------------------------------------------
Base == 62
ChA == 10
ChZ == 35
Cha == 36
Chz == 61

\* null (no bound) and a thrown error, both outside the digit sequences
Null == << -1 >>
Thrown == << -2 >>

IsStr(s) == s # Null /\ s # Thrown

RECURSIVE LessFrom(_, _, _)
\* a < b given that a and b agree before position i
LessFrom(a, b, i) ==
  IF i > Len(b) THEN FALSE
  ELSE IF i > Len(a) THEN TRUE
  ELSE IF a[i] # b[i] THEN a[i] < b[i]
  ELSE LessFrom(a, b, i + 1)

\* a < b for JavaScript strings
StrLess(a, b) == LessFrom(a, b, 1)

StrGeq(a, b) == ~StrLess(a, b)

Slice(s, from) == SubSeq(s, from, Len(s))

Zeros(n) == [i \in 1..n |-> 0]

LastIsZero(s) == Len(s) > 0 /\ s[Len(s)] = 0

\* s + t, a thrown error inside either operand propagating
Cat(s, t) == IF s = Thrown \/ t = Thrown THEN Thrown ELSE s \o t

\* ------------------------------------------------------------------------
\* generateKeyBetween of the fractional-indexing package (BASE-BETWEEN)
\* ------------------------------------------------------------------------
RECURSIVE CommonPrefixLen(_, _, _)
\* while ((a[n] || zero) === b[n]) n++, with n counted from 0
CommonPrefixLen(a, b, n) ==
  IF n < Len(b) /\ (IF n < Len(a) THEN a[n + 1] ELSE 0) = b[n + 1]
  THEN CommonPrefixLen(a, b, n + 1)
  ELSE n

RECURSIVE midpoint(_, _)
midpoint(a, b) ==
  IF b # Null /\ StrGeq(a, b) THEN Thrown
  ELSE IF LastIsZero(a) \/ (b # Null /\ LastIsZero(b)) THEN Thrown
  ELSE
    LET n == IF b # Null THEN CommonPrefixLen(a, b, 0) ELSE 0 IN
    IF n > 0
    THEN Cat(SubSeq(b, 1, n), midpoint(Slice(a, n + 1), Slice(b, n + 1)))
    ELSE
      LET digitA == IF Len(a) > 0 THEN a[1] ELSE 0
          digitB == IF b # Null THEN b[1] ELSE Base
      IN IF digitB - digitA > 1
         THEN << (digitA + digitB + 1) \div 2 >>
         ELSE IF b # Null /\ Len(b) > 1
              THEN SubSeq(b, 1, 1)
              ELSE Cat(<< digitA >>, midpoint(Slice(a, 2), Null))

\* -1 stands for the thrown "invalid order key head"
getIntegerLength(head) ==
  IF head >= Cha /\ head <= Chz THEN head - Cha + 2
  ELSE IF head >= ChA /\ head <= ChZ THEN ChZ - head + 2
  ELSE -1

getIntegerPart(key) ==
  IF Len(key) = 0 THEN Thrown
  ELSE LET integerPartLength == getIntegerLength(key[1]) IN
       IF integerPartLength = -1 \/ integerPartLength > Len(key)
       THEN Thrown
       ELSE SubSeq(key, 1, integerPartLength)

\* TRUE when validateOrderKey returns, FALSE when it throws
validateOrderKey(key) ==
  /\ key # << ChA >> \o Zeros(26)
  /\ getIntegerPart(key) # Thrown
  /\ ~LastIsZero(Slice(key, Len(getIntegerPart(key)) + 1))

validateInteger(int) ==
  Len(int) > 0 /\ Len(int) = getIntegerLength(int[1])

incrementInteger(x) ==
  IF ~validateInteger(x) THEN Thrown
  ELSE
    LET head == x[1]
        NotMax == { i \in 2..Len(x) : x[i] # Base - 1 }
    IN IF NotMax # {}
       THEN LET p == CHOOSE i \in NotMax : \A j \in NotMax : j <= i
            IN [i \in 1..Len(x) |->
                  IF i < p THEN x[i] ELSE IF i = p THEN x[i] + 1 ELSE 0]
       ELSE IF head = ChZ THEN << Cha, 0 >>
       ELSE IF head = Chz THEN Null
       ELSE LET h == head + 1 IN
            IF h > Cha
            THEN << h >> \o Zeros(Len(x))
            ELSE << h >> \o Zeros(Len(x) - 2)

decrementInteger(x) ==
  IF ~validateInteger(x) THEN Thrown
  ELSE
    LET head == x[1]
        NotMin == { i \in 2..Len(x) : x[i] # 0 }
        Maxes(n) == [i \in 1..n |-> Base - 1]
    IN IF NotMin # {}
       THEN LET p == CHOOSE i \in NotMin : \A j \in NotMin : j <= i
            IN [i \in 1..Len(x) |->
                  IF i < p THEN x[i] ELSE IF i = p THEN x[i] - 1 ELSE Base - 1]
       ELSE IF head = Cha THEN << ChZ, Base - 1 >>
       ELSE IF head = ChA THEN Null
       ELSE LET h == head - 1 IN
            IF h < ChZ
            THEN << h >> \o Maxes(Len(x))
            ELSE << h >> \o Maxes(Len(x) - 2)

generateKeyBetween(a, b) ==
  IF a # Null /\ ~validateOrderKey(a) THEN Thrown
  ELSE IF b # Null /\ ~validateOrderKey(b) THEN Thrown
  ELSE IF a # Null /\ b # Null /\ StrGeq(a, b) THEN Thrown
  ELSE IF a = Null
  THEN IF b = Null THEN << Cha, 0 >>
       ELSE LET ib == getIntegerPart(b)
                fb == Slice(b, Len(ib) + 1)
            IN IF ib = << ChA >> \o Zeros(26) THEN Cat(ib, midpoint(<<>>, fb))
               ELSE IF StrLess(ib, b) THEN ib
               ELSE LET res == decrementInteger(ib) IN
                    IF res = Null THEN Thrown ELSE res
  ELSE IF b = Null
  THEN LET ia == getIntegerPart(a)
           fa == Slice(a, Len(ia) + 1)
           i == incrementInteger(ia)
       IN IF i = Null THEN Cat(ia, midpoint(fa, Null)) ELSE i
  ELSE LET ia == getIntegerPart(a)
           fa == Slice(a, Len(ia) + 1)
           ib == getIntegerPart(b)
           fb == Slice(b, Len(ib) + 1)
       IN IF ia = ib THEN Cat(ia, midpoint(fa, fb))
          ELSE LET i == incrementInteger(ia) IN
               IF i = Null THEN Thrown
               ELSE IF StrLess(i, b) THEN i
               ELSE Cat(ia, midpoint(fa, Null))

\* ------------------------------------------------------------------------
\* generateFractionalIndexingKeyBetween (KeyCodec)
\* ------------------------------------------------------------------------
randomSize == 32

\* "123456789A-Za-z": the digits without '0'
PostfixCharsLen == 61

\* number of distinct random byte arrays crypto.getRandomValues may deliver
NumRandom == 2

\* the smallest bytes, giving the postfix characters '1', '2', ...
RandomValues == { [i \in 1..randomSize |-> k - 1] : k \in 1..NumRandom }

\* chars.charAt(values[i] % chars.length), chars starting at '1'
\* the postfix drawn from all 62 digits, '0' included
postfix_withZero(values) == [i \in 1..Len(values) |-> values[i] % Base]

postfix(values) == [i \in 1..Len(values) |-> (values[i] % PostfixCharsLen) + 1]

\* the length test one short: a key of 33 characters is cut
subkey_offByOne(key) ==
  IF key = Null THEN Null
  ELSE IF Len(key) <= randomSize THEN key
  ELSE SubSeq(key, 1, Len(key) - randomSize - 1)

subkey(key) ==
  IF key = Null THEN Null
  ELSE IF Len(key) <= randomSize + 1 THEN key
  ELSE SubSeq(key, 1, Len(key) - randomSize - 1)

NoCall == [made |-> FALSE, lo |-> Null, hi |-> Null]
BaseCall(lo, hi) == [made |-> TRUE, lo |-> lo, hi |-> hi]

\* the bounds handed to generateKeyBetween by the four-way branch
\* the equal-subkey branch left out
BaseArgs_noFallback(a, b) ==
  LET aSubkey == subkey(a)
      bSubkey == subkey(b)
  IN IF aSubkey = Null /\ bSubkey = Null THEN BaseCall(Null, Null)
     ELSE IF aSubkey = Null /\ bSubkey # Null THEN BaseCall(Null, bSubkey)
     ELSE IF bSubkey = Null /\ aSubkey # Null THEN BaseCall(aSubkey, Null)
     ELSE BaseCall(aSubkey, bSubkey)

BaseArgs(a, b) ==
  LET aSubkey == subkey(a)
      bSubkey == subkey(b)
  IN IF aSubkey = Null /\ bSubkey = Null THEN BaseCall(Null, Null)
     ELSE IF aSubkey = Null /\ bSubkey # Null THEN BaseCall(Null, bSubkey)
     ELSE IF bSubkey = Null /\ aSubkey # Null THEN BaseCall(aSubkey, Null)
     ELSE IF aSubkey = bSubkey /\ a # Null /\ b # Null THEN BaseCall(a, b)
     ELSE BaseCall(aSubkey, bSubkey)

\* the outcome of one call: err is "" when a key is returned, "order" for
\* 'a should be smaller than b', "base" for an error thrown by
\* generateKeyBetween; base is the generateKeyBetween call that was made
\* the bound check written with > : equal bounds pass it
generateFractionalIndexingKeyBetween_strictGuard(a, b, values) ==
  IF a # Null /\ b # Null /\ StrLess(b, a)
  THEN [err |-> "order", key |-> Null, base |-> NoCall, baseKey |-> Null]
  ELSE LET call == BaseArgs(a, b)
           k == generateKeyBetween(call.lo, call.hi)
       IN IF k = Thrown
          THEN [err |-> "base", key |-> Null, base |-> call, baseKey |-> Null]
          ELSE [err |-> "", key |-> k \o << 0 >> \o postfix(values),
                base |-> call, baseKey |-> k]

generateFractionalIndexingKeyBetween(a, b, values) ==
  IF a # Null /\ b # Null /\ StrGeq(a, b)
  THEN [err |-> "order", key |-> Null, base |-> NoCall, baseKey |-> Null]
  ELSE LET call == BaseArgs(a, b)
           k == generateKeyBetween(call.lo, call.hi)
       IN IF k = Thrown
          THEN [err |-> "base", key |-> Null, base |-> call, baseKey |-> Null]
          ELSE [err |-> "", key |-> k \o << 0 >> \o postfix(values),
                base |-> call, baseKey |-> k]

\* ------------------------------------------------------------------------
\* createFractionalIndexingSortableHelper (ListOrderer)
\* ------------------------------------------------------------------------
VARIABLES
  items,    \* the provider's array: a sequence of [id, order]
  last,     \* what the latest helper call did
  steps,    \* number of helper calls made
  pool,     \* keys known to the callers of the key generator
  lastGen,  \* what the latest generateFractionalIndexingKeyBetween call did
  writers   \* the helper call each uncoordinated writer made on the snapshot

vars == << items, last, steps, pool, lastGen, writers >>

MaxItems == 3
MaxSteps == 2
MaxKeys == 3

IDS == 1..MaxItems
\* an id no item carries, and the undefined beforeId
MissingId == 0
Undefined == -1
\* items[i] for an index outside the array
NoItem == [id |-> -2, order |-> Null]

RECURSIVE getOrderedItems(_)
\* Array.prototype.sort with the comparator of lines 19-23: stable, ascending
getOrderedItems(arr) ==
  IF Len(arr) = 0 THEN << >>
  ELSE LET front == getOrderedItems(SubSeq(arr, 1, Len(arr) - 1))
           x == arr[Len(arr)]
           \* x goes behind every element whose order is not greater
           n == Cardinality({ i \in 1..Len(front) : ~StrLess(x.order, front[i].order) })
       IN SubSeq(front, 1, n) \o << x >> \o SubSeq(front, n + 1, Len(front))

\* zero-based items[i]; undefined outside the array
At(arr, i) == IF i >= 0 /\ i < Len(arr) THEN arr[i + 1] ELSE NoItem

\* zero-based Array.prototype.findIndex on the item id; -1 when not found
findIndex(arr, id) ==
  LET Hits == { i \in 1..Len(arr) : arr[i].id = id }
  IN IF Hits = {} THEN -1
     ELSE (CHOOSE i \in Hits : \A j \in Hits : i <= j) - 1

getItemOrder(item) == IF item # NoItem THEN item.order ELSE Null

getLargestOrder(arr) == getItemOrder(At(getOrderedItems(arr), Len(arr) - 1))

getSmallestOrder(arr) == getItemOrder(At(getOrderedItems(arr), 0))

\* the new key taken behind the first item instead of the last
getNewItemOrder_afterSmallest(arr) == generateKeyBetween(getSmallestOrder(arr), Null)

getNewItemOrder(arr) == generateKeyBetween(getLargestOrder(arr), Null)

\* provider.setItemOrder(item, order) on the array the provider handed out
setItemOrder(arr, item, order) ==
  [i \in 1..Len(arr) |->
     IF arr[i].id = item.id THEN [id |-> arr[i].id, order |-> order] ELSE arr[i]]

\* the outcome of a helper call that reached generateKeyBetween(lo, hi) for
\* the item `item` of the sorted array `sorted`
\* the key written to the first item of the array as well
Assign_alsoFirst(sorted, item, lo, hi) ==
  LET key == generateKeyBetween(lo, hi) IN
  IF key = Thrown
  THEN [items |-> sorted, calls |-> << >>, err |-> "base",
        lo |-> lo, hi |-> hi, key |-> Null]
  ELSE [items |-> setItemOrder(setItemOrder(sorted, item, key), At(sorted, 0), key),
        calls |-> << [id |-> item.id, order |-> key] >>, err |-> "",
        lo |-> lo, hi |-> hi, key |-> key]

Assign(sorted, item, lo, hi) ==
  LET key == generateKeyBetween(lo, hi) IN
  IF key = Thrown
  THEN [items |-> sorted, calls |-> << >>, err |-> "base",
        lo |-> lo, hi |-> hi, key |-> Null]
  ELSE [items |-> setItemOrder(sorted, item, key),
        calls |-> << [id |-> item.id, order |-> key] >>, err |-> "",
        lo |-> lo, hi |-> hi, key |-> key]

\* the outcome of a helper call that returned before generating a key
Returned(sorted) ==
  [items |-> sorted, calls |-> << >>, err |-> "",
   lo |-> Null, hi |-> Null, key |-> Null]

\* the neighbour taken at to - 1 whatever the direction
move_neighbourBehind(arr, fromId, toId) ==
  LET sorted == getOrderedItems(arr)
      from == findIndex(sorted, fromId)
      to == findIndex(sorted, toId)
      toNextItem == At(sorted, to - 1)
      toOrder == getItemOrder(At(sorted, to))
      toNextOrder == getItemOrder(toNextItem)
      args == IF from < to THEN << toOrder, toNextOrder >>
                           ELSE << toNextOrder, toOrder >>
  IN Assign(sorted, At(sorted, from), args[1], args[2])

\* the bounds passed as (to, neighbour) whatever the direction
move_argsNotSwapped(arr, fromId, toId) ==
  LET sorted == getOrderedItems(arr)
      from == findIndex(sorted, fromId)
      to == findIndex(sorted, toId)
      toNextItem == At(sorted, IF from < to THEN to + 1 ELSE to - 1)
  IN Assign(sorted, At(sorted, from),
            getItemOrder(At(sorted, to)), getItemOrder(toNextItem))

\* the neighbour chosen with from <= to, the bounds ordered with from < to
move_inconsistentDirection(arr, fromId, toId) ==
  LET sorted == getOrderedItems(arr)
      from == findIndex(sorted, fromId)
      to == findIndex(sorted, toId)
      toNextItem == At(sorted, IF from <= to THEN to + 1 ELSE to - 1)
      toOrder == getItemOrder(At(sorted, to))
      toNextOrder == getItemOrder(toNextItem)
      args == IF from < to THEN << toOrder, toNextOrder >>
                           ELSE << toNextOrder, toOrder >>
  IN Assign(sorted, At(sorted, from), args[1], args[2])

move(arr, fromId, toId) ==
  LET sorted == getOrderedItems(arr)
      from == findIndex(sorted, fromId)
      to == findIndex(sorted, toId)
      fromItem == At(sorted, from)
      toItem == At(sorted, to)
      toNextItem == At(sorted, IF from < to THEN to + 1 ELSE to - 1)
      toOrder == getItemOrder(toItem)
      toNextOrder == getItemOrder(toNextItem)
      args == IF from < to THEN << toOrder, toNextOrder >>
                           ELSE << toNextOrder, toOrder >>
  IN Assign(sorted, fromItem, args[1], args[2])

\* the 'before' and 'after' branches exchanged
moveTo_sidesSwapped(arr, fromId, toId, position) ==
  LET sorted == getOrderedItems(arr)
      to == findIndex(sorted, toId)
      fromItem == At(sorted, findIndex(sorted, fromId))
      toItemOrder == getItemOrder(At(sorted, to))
  IN IF fromItem = NoItem THEN Returned(sorted)
     ELSE IF position = "after"
          THEN Assign(sorted, fromItem, getItemOrder(At(sorted, to - 1)), toItemOrder)
          ELSE Assign(sorted, fromItem, toItemOrder, getItemOrder(At(sorted, to + 1)))

\* the early return on a missing fromItem left out
moveTo_noGuard(arr, fromId, toId, position) ==
  LET sorted == getOrderedItems(arr)
      to == findIndex(sorted, toId)
      fromItem == At(sorted, findIndex(sorted, fromId))
      toItemOrder == getItemOrder(At(sorted, to))
  IN IF position = "before"
     THEN Assign(sorted, fromItem, getItemOrder(At(sorted, to - 1)), toItemOrder)
     ELSE Assign(sorted, fromItem, toItemOrder, getItemOrder(At(sorted, to + 1)))

moveTo(arr, fromId, toId, position) ==
  LET sorted == getOrderedItems(arr)
      from == findIndex(sorted, fromId)
      to == findIndex(sorted, toId)
      fromItem == At(sorted, from)
      toItem == At(sorted, to)
      toItemPrev == At(sorted, to - 1)
      toItemNext == At(sorted, to + 1)
      toItemOrder == getItemOrder(toItem)
      toItemPrevOrder == getItemOrder(toItemPrev)
      toItemNextOrder == getItemOrder(toItemNext)
  IN IF fromItem = NoItem THEN Returned(sorted)
     ELSE IF position = "before"
          THEN Assign(sorted, fromItem, toItemPrevOrder, toItemOrder)
          ELSE Assign(sorted, fromItem, toItemOrder, toItemNextOrder)

\* the lower bound taken from the first item instead of the predecessor
insertBefore_fromFirst(arr, id, beforeId) ==
  LET sorted == getOrderedItems(arr)
      item == At(sorted, findIndex(sorted, id))
      beforeItemIndex == findIndex(sorted, beforeId)
      beforeItem == IF beforeItemIndex # -1 THEN At(sorted, beforeItemIndex) ELSE NoItem
      beforeItemPrev == IF beforeItem # NoItem /\ beforeItemIndex > 0
                        THEN At(sorted, 0) ELSE NoItem
  IN IF item = NoItem THEN Returned(sorted)
     ELSE Assign(sorted, item, getItemOrder(beforeItemPrev), getItemOrder(beforeItem))

\* the neighbour of beforeItem taken behind it instead of in front of it
insertBefore_prevIsNext(arr, id, beforeId) ==
  LET sorted == getOrderedItems(arr)
      item == At(sorted, findIndex(sorted, id))
      beforeItemIndex == findIndex(sorted, beforeId)
      beforeItem == IF beforeItemIndex # -1 THEN At(sorted, beforeItemIndex) ELSE NoItem
      beforeItemPrev == IF beforeItem # NoItem THEN At(sorted, beforeItemIndex + 1) ELSE NoItem
  IN IF item = NoItem THEN Returned(sorted)
     ELSE Assign(sorted, item, getItemOrder(beforeItemPrev), getItemOrder(beforeItem))

insertBefore(arr, id, beforeId) ==
  LET sorted == getOrderedItems(arr)
      item == At(sorted, findIndex(sorted, id))
      beforeItemIndex == findIndex(sorted, beforeId)
      beforeItem == IF beforeItemIndex # -1 THEN At(sorted, beforeItemIndex) ELSE NoItem
      beforeItemPrev == IF beforeItem # NoItem THEN At(sorted, beforeItemIndex - 1) ELSE NoItem
      beforeOrder == getItemOrder(beforeItem)
      beforePrevOrder == getItemOrder(beforeItemPrev)
  IN IF item = NoItem THEN Returned(sorted)
     ELSE Assign(sorted, item, beforePrevOrder, beforeOrder)

\* ------------------------------------------------------------------------
\* The state machine of the helper
\* ------------------------------------------------------------------------
Item(id, order) == [id |-> id, order |-> order]

\* "a0", "a1", "a2": the keys generateKeyBetween hands out for appends
KeyA0 == << Cha, 0 >>
KeyA1 == << Cha, 1 >>
KeyA2 == << Cha, 2 >>
\* a key carrying the '0' + postfix envelope
Enveloped(base, byte) == base \o << 0 >> \o postfix([i \in 1..randomSize |-> byte])

\* collections the helper is created over: empty, appended one by one
\* (handed out in any array order), and keys made by the key generator
InitLists ==
  { << >>,
    << Item(2, KeyA1), Item(1, KeyA0) >>,
    << Item(3, KeyA2), Item(1, KeyA0), Item(2, KeyA1) >>,
    << Item(1, Enveloped(KeyA0, 4)), Item(3, Enveloped(KeyA1, 8)),
       Item(2, Enveloped(<< Cha, 0, 31 >>, 4)) >> }

NoLast ==
  [op |-> "none", id |-> MissingId, other |-> MissingId, position |-> "",
   arr |-> << >>, pre |-> << >>, calls |-> << >>, err |-> "",
   lo |-> Null, hi |-> Null, key |-> Null]

NoGen == [a |-> Null, b |-> Null, done |-> FALSE, err |-> "", key |-> Null,
          base |-> NoCall, baseKey |-> Null]

\* the actors that write without coordination
Writers == {1, 2}

NoWrite ==
  [done |-> FALSE, op |-> "none", id |-> MissingId, other |-> MissingId,
   position |-> "", calls |-> << >>, err |-> "", lo |-> Null, hi |-> Null,
   key |-> Null]

NoWrites == [w \in Writers |-> NoWrite]

Init ==
  /\ items \in InitLists
  /\ last = NoLast
  /\ steps = 0
  /\ pool = {}
  /\ lastGen = NoGen
  /\ writers = NoWrites

Ids(arr) == { arr[i].id : i \in 1..Len(arr) }

Done(op, id, other, position, r, err) ==
  [op |-> op, id |-> id, other |-> other, position |-> position,
   arr |-> items, pre |-> getOrderedItems(items), calls |-> r.calls, err |-> err,
   lo |-> r.lo, hi |-> r.hi, key |-> r.key]

\* a new item is given getNewItemOrder() and pushed by the caller
NewItem ==
  /\ steps < MaxSteps
  /\ \E id \in IDS \ Ids(items) :
       LET key == getNewItemOrder(items)
           sorted == getOrderedItems(items)
           r == [calls |-> << >>, lo |-> getLargestOrder(items), hi |-> Null,
                 key |-> IF key = Thrown THEN Null ELSE key]
       IN /\ items' = IF key = Thrown THEN sorted
                      ELSE Append(sorted, Item(id, key))
          /\ last' = Done("append", id, MissingId, "", r,
                          IF key = Thrown THEN "base" ELSE "")
  /\ steps' = steps + 1
  /\ UNCHANGED << pool, lastGen, writers >>

Move ==
  /\ steps < MaxSteps
  /\ \E fromId \in IDS \cup {MissingId}, toId \in IDS \cup {MissingId} :
       LET r == move(items, fromId, toId) IN
       /\ items' = r.items
       \* a hook handed undefined either ignores it or throws
       /\ \E hookThrows \in BOOLEAN :
            /\ hookThrows => (r.calls # << >> /\ r.calls[1].id = NoItem.id)
            /\ last' = Done("move", fromId, toId, "", r,
                            IF hookThrows THEN "hook" ELSE r.err)
  /\ steps' = steps + 1
  /\ UNCHANGED << pool, lastGen, writers >>

MoveTo ==
  /\ steps < MaxSteps
  /\ \E fromId \in IDS \cup {MissingId}, toId \in IDS \cup {MissingId},
        position \in {"before", "after"} :
       LET r == moveTo(items, fromId, toId, position) IN
       /\ items' = r.items
       /\ last' = Done("moveTo", fromId, toId, position, r, r.err)
  /\ steps' = steps + 1
  /\ UNCHANGED << pool, lastGen, writers >>

InsertBefore ==
  /\ steps < MaxSteps
  /\ \E id \in IDS \cup {MissingId}, beforeId \in IDS \cup {MissingId, Undefined} :
       LET r == insertBefore(items, id, beforeId) IN
       /\ items' = r.items
       /\ last' = Done("insertBefore", id, beforeId, "", r, r.err)
  /\ steps' = steps + 1
  /\ UNCHANGED << pool, lastGen, writers >>

\* a call of getOrderedItems alone: the array getItems() handed out is sorted
\* by Array.prototype.sort and returned
GetOrderedItems ==
  /\ steps < MaxSteps
  /\ items' = getOrderedItems(items)
  /\ last' = Done("getOrderedItems", MissingId, MissingId, "",
                  Returned(getOrderedItems(items)), "")
  /\ steps' = steps + 1
  /\ UNCHANGED << pool, lastGen, writers >>

Next == NewItem \/ MoveTo \/ InsertBefore \/ Move \/ GetOrderedItems

Spec == Init /\ [][Next]_vars

\* ------------------------------------------------------------------------
\* The state machine of the key generator: callers keep the keys returned
\* and use them, or legacy keys without envelope, as later bounds
\* ------------------------------------------------------------------------
\* "a0" followed by 31 times 'V': a legacy key of the greatest length (33)
\* that is still taken as its own subkey
KeyLegacy33 == KeyA0 \o [i \in 1..(randomSize - 1) |-> 31]

InitPools == { {}, {KeyA0}, {KeyA0, KeyA1}, {KeyLegacy33} }

InitCodec ==
  /\ items = << >>
  /\ last = NoLast
  /\ steps = 0
  /\ pool \in InitPools
  /\ lastGen = NoGen
  /\ writers = NoWrites

\* one call of the key generator with bounds the caller knows
Generate ==
  /\ ~lastGen.done
  /\ \E a \in pool \cup {Null}, b \in pool \cup {Null}, values \in RandomValues :
       LET r == generateFractionalIndexingKeyBetween(a, b, values) IN
       lastGen' = [a |-> a, b |-> b, done |-> TRUE, err |-> r.err,
                   key |-> r.key, base |-> r.base, baseKey |-> r.baseKey]
  /\ UNCHANGED << items, last, steps, pool, writers >>

\* the caller stores the returned key (as long as it has room for one), or
\* gives up after an error
Keep ==
  /\ lastGen.done
  /\ pool' = IF lastGen.err = "" /\ Cardinality(pool) < MaxKeys
             THEN pool \cup {lastGen.key} ELSE pool
  /\ lastGen' = NoGen
  /\ UNCHANGED << items, last, steps, writers >>

NextCodec == Generate \/ Keep

SpecCodec == InitCodec /\ [][NextCodec]_vars

\* ------------------------------------------------------------------------
\* Uncoordinated writers: each actor runs one helper call on its own copy of
\* the same snapshot (items); the setItemOrder calls of all of them are then
\* applied to the collection
\* ------------------------------------------------------------------------
InitWriters ==
  /\ items \in InitLists
  /\ last = NoLast
  /\ steps = 0
  /\ pool = {}
  /\ lastGen = NoGen
  /\ writers = NoWrites

Written(op, id, other, position, r) ==
  [done |-> TRUE, op |-> op, id |-> id, other |-> other,
   position |-> position, calls |-> r.calls, err |-> r.err,
   lo |-> r.lo, hi |-> r.hi, key |-> r.key]

WriterMove ==
  /\ last.op = "none"
  /\ \E w \in Writers, fromId \in IDS \cup {MissingId}, toId \in IDS \cup {MissingId} :
       /\ ~writers[w].done
       /\ writers' = [writers EXCEPT ![w] =
                        Written("move", fromId, toId, "", move(items, fromId, toId))]
  /\ UNCHANGED << items, last, steps, pool, lastGen >>

WriterMoveTo ==
  /\ last.op = "none"
  /\ \E w \in Writers, fromId \in IDS \cup {MissingId}, toId \in IDS \cup {MissingId},
        position \in {"before", "after"} :
       /\ ~writers[w].done
       /\ writers' = [writers EXCEPT ![w] =
                        Written("moveTo", fromId, toId, position,
                                moveTo(items, fromId, toId, position))]
  /\ UNCHANGED << items, last, steps, pool, lastGen >>

WriterInsertBefore ==
  /\ last.op = "none"
  /\ \E w \in Writers, id \in IDS \cup {MissingId},
        beforeId \in IDS \cup {MissingId, Undefined} :
       /\ ~writers[w].done
       /\ writers' = [writers EXCEPT ![w] =
                        Written("insertBefore", id, beforeId, "",
                                insertBefore(items, id, beforeId))]
  /\ UNCHANGED << items, last, steps, pool, lastGen >>

RECURSIVE ApplyCalls(_, _)
\* the setItemOrder calls of a sequence, applied in turn
ApplyCalls(arr, calls) ==
  IF calls = << >> THEN arr
  ELSE ApplyCalls(setItemOrder(arr, [id |-> calls[1].id, order |-> Null],
                               calls[1].order),
                  Tail(calls))

\* the writes of all writers reach the collection, in either order
Merge ==
  /\ last.op = "none"
  /\ \A w \in Writers : writers[w].done
  /\ \E first \in Writers :
       LET second == CHOOSE w \in Writers : w # first
           calls == writers[first].calls \o writers[second].calls
       IN /\ items' = ApplyCalls(getOrderedItems(items), calls)
          /\ last' = Done("merge", MissingId, MissingId, "",
                          [calls |-> calls, lo |-> Null, hi |-> Null, key |-> Null],
                          "")
  /\ steps' = steps + 1
  /\ UNCHANGED << pool, lastGen, writers >>

NextWriters == WriterMove \/ WriterMoveTo \/ WriterInsertBefore \/ Merge

SpecWriters == InitWriters /\ [][NextWriters]_vars

\* ------------------------------------------------------------------------
\* Properties
\* ------------------------------------------------------------------------
Distinct(arr) ==
  \A i, j \in 1..Len(arr) : i # j => arr[i].order # arr[j].order

\* one-based position of the item id in the sorted array, 0 when absent
PosOf(arr, id) == findIndex(getOrderedItems(arr), id) + 1

OrderById(arr, id) == getOrderedItems(arr)[PosOf(arr, id)].order

\* every item but `id` has the order it had before the call
OthersUnchanged(id) ==
  /\ Ids(items) \ {id} = Ids(last.pre) \ {id}
  /\ \A x \in Ids(last.pre) \ {id} : OrderById(items, x) = OrderById(last.pre, x)

\* lo < k < hi, an absent bound imposing nothing
Between(lo, k, hi) ==
  /\ IsStr(k)
  /\ lo # Null => StrLess(lo, k)
  /\ hi # Null => StrLess(k, hi)

\* C1: generateFractionalIndexingKeyBetween(a, b), called with bounds that
\* are legacy keys or keys it returned before, absent or with a < b, returns
\* a key k with a < k < b.
C1_StrictlyBetween ==
  (/\ lastGen.done
   /\ (lastGen.a # Null /\ lastGen.b # Null) => StrLess(lastGen.a, lastGen.b))
  => (lastGen.err = "" /\ Between(lastGen.a, lastGen.key, lastGen.b))

\* C2: the keys of all items stay pairwise distinct under any sequence of
\* helper calls with any arguments.
C2_KeysDistinct == Distinct(items)

\* C3: insertBefore(id, beforeId) with id present and beforeId undefined or
\* not found gives the item a key greater than the key of every other item.
C3_InsertBeforeAppends ==
  (/\ last.op = "insertBefore"
   /\ last.id \in Ids(last.pre)
   /\ last.other \notin Ids(last.pre))
  => /\ last.err = ""
     /\ IsStr(last.key)
     /\ OrderById(items, last.id) = last.key
     /\ \A x \in Ids(items) \ {last.id} : StrLess(OrderById(items, x), last.key)

\* the three-item list [a, b, c] on which move(a.id, c.id) was called
MovedFirstOntoLast ==
  /\ last.op = "move"
  /\ Len(last.pre) = 3
  /\ Distinct(last.pre)
  /\ last.id = last.pre[1].id
  /\ last.other = last.pre[3].id

SortedIds(arr) == [i \in 1..Len(arr) |-> getOrderedItems(arr)[i].id]

\* C4 as stated: on [a, b, c], move(a.id, c.id) gives a a key between b's and
\* c's, the sorted order becoming [b, a', c].
C4_MoveBetweenSecondAndThird ==
  MovedFirstOntoLast
  => /\ Between(last.pre[2].order, last.key, last.pre[3].order)
     /\ SortedIds(items) = << last.pre[2].id, last.pre[1].id, last.pre[3].id >>

\* C4 amended: on [a, b, c], move(a.id, c.id) gives a a key greater than
\* c's, the sorted order becoming [b, c, a'].
C4_MoveFirstOntoLast ==
  MovedFirstOntoLast
  => /\ last.err = ""
     /\ StrLess(last.pre[3].order, last.key)
     /\ OrderById(items, last.id) = last.key
     /\ SortedIds(items) = << last.pre[2].id, last.pre[3].id, last.pre[1].id >>

C4_Witness == MovedFirstOntoLast /\ Len(last.calls) = 1

\* C5: move(fromId, toId) with fromId absent from the collection does not
\* invoke setItemOrder, raises no error and changes no order.
C5_MoveMissingFromNoOp ==
  (last.op = "move" /\ last.id \notin Ids(last.pre))
  => /\ last.calls = << >>
     /\ last.err = ""
     /\ OthersUnchanged(last.id)

\* C6: generateFractionalIndexingKeyBetween(a, b) with both bounds present
\* and a >= b fails with 'a should be smaller than b' before any key is
\* generated.
C6_BoundOrderRejected ==
  (/\ lastGen.done
   /\ lastGen.a # Null /\ lastGen.b # Null
   /\ StrGeq(lastGen.a, lastGen.b))
  => /\ lastGen.err = "order"
     /\ lastGen.key = Null
     /\ ~lastGen.base.made

C6_Witness ==
  /\ lastGen.done
  /\ lastGen.a # Null /\ lastGen.a = lastGen.b
  /\ lastGen.err = "order"

\* the latest call named two items of a collection with distinct keys
BothPresent(op) ==
  /\ last.op = op
  /\ Distinct(last.pre)
  /\ last.id \in Ids(last.pre)
  /\ last.other \in Ids(last.pre)

\* the call assigned exactly the generated key to the item it names
AssignedOnce ==
  /\ last.err = ""
  /\ last.calls = << [id |-> last.id, order |-> last.key] >>
  /\ OrderById(items, last.id) = last.key

\* order of the item at one-based position p before the call, Null outside
PreOrder(p) == getItemOrder(At(last.pre, p - 1))

\* C7: move(fromId, toId) with both present and distinct keys: moving
\* forward the new key lies between to.order and the order of the item after
\* to; otherwise between the order of the item before to and to.order; the
\* item ends next to the target, behind it when moving forward and in front
\* of it when moving backward.
C7_MoveBounds ==
  BothPresent("move")
  => LET from == PosOf(last.pre, last.id)
         to == PosOf(last.pre, last.other)
     IN /\ AssignedOnce
        /\ from < to =>
             /\ Between(PreOrder(to), last.key, PreOrder(to + 1))
             /\ PosOf(items, last.id) = PosOf(items, last.other) + 1
        /\ from >= to =>
             /\ Between(PreOrder(to - 1), last.key, PreOrder(to))
             /\ from > to => PosOf(items, last.id) + 1 = PosOf(items, last.other)

C7_Witness ==
  /\ BothPresent("move")
  /\ Len(last.pre) = 3
  /\ PosOf(last.pre, last.id) = 3
  /\ PosOf(last.pre, last.other) = 2
  /\ Len(last.calls) = 1

\* C8: moveTo(fromId, toId, side) with both present, fromId # toId and
\* distinct keys leaves the moved item immediately before toId for 'before'
\* and immediately after it for 'after', wherever it was.
C8_MoveToSide ==
  (BothPresent("moveTo") /\ last.id # last.other)
  => /\ AssignedOnce
     /\ last.position = "before" =>
          PosOf(items, last.id) + 1 = PosOf(items, last.other)
     /\ last.position = "after" =>
          PosOf(items, last.id) = PosOf(items, last.other) + 1

\* fromId was already the item right before toId, and is placed 'after'
C8_Witness ==
  /\ BothPresent("moveTo")
  /\ last.position = "after"
  /\ PosOf(last.pre, last.id) + 1 = PosOf(last.pre, last.other)
  /\ Len(last.pre) = 3
  /\ Len(last.calls) = 1

\* C9: insertBefore(id, beforeId) with both present and distinct keys gives
\* the item a key between the order of beforeId's predecessor (if any) and
\* beforeId.order, so the item ends immediately before beforeId.
C9_InsertBeforeBounds ==
  BothPresent("insertBefore")
  => LET before == PosOf(last.pre, last.other)
     IN /\ AssignedOnce
        /\ Between(PreOrder(before - 1), last.key, PreOrder(before))
        /\ last.id # last.other =>
             PosOf(items, last.id) + 1 = PosOf(items, last.other)

\* the item is taken from behind beforeId and beforeId has a predecessor
C9_Witness ==
  /\ BothPresent("insertBefore")
  /\ PosOf(last.pre, last.other) = 2
  /\ PosOf(last.pre, last.id) = 3
  /\ Len(last.calls) = 1

IsWrite == last.op \in {"move", "moveTo", "insertBefore"}

C11_MissingItemNoOp ==
  (last.op \in {"moveTo", "insertBefore"} /\ last.id \notin Ids(last.pre))
  => /\ last.calls = << >>
     /\ last.err = ""
     /\ Ids(items) = Ids(last.pre)
     /\ OthersUnchanged(last.id)

C11_Witness ==
  /\ last.op = "moveTo"
  /\ last.id \notin Ids(last.pre)
  /\ last.other \in Ids(last.pre)
  /\ Len(last.pre) = 3

\* C12: each key getNewItemOrder returns for a new item is greater than
\* every key in the collection at the time of the call; on an empty
\* collection the call succeeds.
C12_AppendMonotone ==
  last.op = "append"
  => /\ last.err = ""
     /\ IsStr(last.key)
     /\ \A i \in 1..Len(last.pre) : StrLess(last.pre[i].order, last.key)
     /\ last.id \in Ids(items)
     /\ OrderById(items, last.id) = last.key

C12_Witness ==
  /\ last.op = "append"
  /\ Len(last.pre) = 2
  /\ Len(items) = 3

\* arr holds the same items in ascending order of their keys
SortedAscending(arr) ==
  \A i \in 1..(Len(arr) - 1) : ~StrLess(arr[i + 1].order, arr[i].order)

SameItems(arr1, arr2) ==
  /\ Len(arr1) = Len(arr2)
  /\ { arr1[i] : i \in 1..Len(arr1) } = { arr2[i] : i \in 1..Len(arr2) }

\* C16: getOrderedItems returns all items sorted ascending by key, never
\* calls setItemOrder, and leaves the sequence getItems() handed out in the
\* order it had.
C16_GetOrderedItemsPure ==
  last.op = "getOrderedItems"
  => /\ SortedAscending(last.pre)
     /\ SameItems(last.pre, last.arr)
     /\ last.calls = << >>
     /\ items = last.arr

\* C17: from pairwise-distinct keys, a move, moveTo or insertBefore whose
\* ids are all present never makes generateKeyBetween throw: the bounds are
\* the keys of two adjacent items (or absent at either end) with lo < hi,
\* and the keys stay pairwise distinct.
C17_PresentIdsNeverThrow ==
  (/\ IsWrite
   /\ Distinct(last.pre)
   /\ last.id \in Ids(last.pre)
   /\ last.other \in Ids(last.pre))
  => /\ last.err = ""
     /\ \E p \in 0..Len(last.pre) :
          last.lo = PreOrder(p) /\ last.hi = PreOrder(p + 1)
     /\ (last.lo # Null /\ last.hi # Null) => StrLess(last.lo, last.hi)
     /\ Distinct(items)

\* the second of two calls, both ids present
C17_Witness ==
  /\ steps = 2
  /\ last.op = "insertBefore"
  /\ Distinct(last.pre)
  /\ last.id \in Ids(last.pre)
  /\ last.other \in Ids(last.pre)
  /\ last.lo # Null
  /\ Len(last.calls) = 1

\* C18: move(x, x), moveTo(x, x, 'before') and moveTo(x, x, 'after') on a
\* list of distinct keys give x a new key and leave the sorted sequence of
\* item ids as it was.
C18_MoveOntoItself ==
  (/\ last.op \in {"move", "moveTo"}
   /\ Distinct(last.pre)
   /\ last.id \in Ids(last.pre)
   /\ last.other = last.id)
  => /\ AssignedOnce
     /\ last.key # OrderById(last.pre, last.id)
     /\ SortedIds(items) = SortedIds(last.pre)

C18_Witness ==
  /\ last.op = "move"
  /\ Len(last.pre) = 3
  /\ Distinct(last.pre)
  /\ last.other = last.id
  /\ PosOf(last.pre, last.id) = 2
  /\ Len(last.calls) = 1

\* the keys the callers of the key generator hold or have just passed
KnownKeys == pool \cup ({ lastGen.a, lastGen.b, lastGen.key } \ { Null })

\* a key of more than 33 characters without its last 33, any other key whole
CutEnvelope(key) ==
  IF Len(key) <= 33 THEN key ELSE SubSeq(key, 1, Len(key) - 33)

\* C14: subkey(key) is key for a key of at most 33 characters and key
\* without its last 33 characters otherwise; appending '0' and any
\* 32-character suffix to that subkey gives a key with the same subkey. The
\* generator passes these subkeys on whenever the two differ.
C14_SubkeyExtraction ==
  /\ \A key \in KnownKeys :
       /\ subkey(key) = CutEnvelope(key)
       /\ Len(key) > 33 =>
            \A values \in RandomValues :
              subkey(subkey(key) \o << 0 >> \o postfix(values)) = subkey(key)
  /\ (/\ lastGen.done /\ lastGen.base.made
      /\ lastGen.a # Null /\ lastGen.b # Null
      /\ CutEnvelope(lastGen.a) # CutEnvelope(lastGen.b))
     => lastGen.base = BaseCall(CutEnvelope(lastGen.a), CutEnvelope(lastGen.b))

\* a legacy key of exactly 33 characters below an enveloped key
C14_Witness ==
  /\ lastGen.done /\ lastGen.base.made
  /\ lastGen.a # Null /\ lastGen.b # Null
  /\ Len(lastGen.a) = 33
  /\ Len(lastGen.b) > 33

\* C15: for a < b with subkey(a) = subkey(b) the generator calls
\* generateKeyBetween on the full strings a and b, does not fail and returns
\* a key k with a < k < b.
C15_EqualSubkeyFallback ==
  (/\ lastGen.done
   /\ lastGen.a # Null /\ lastGen.b # Null
   /\ StrLess(lastGen.a, lastGen.b)
   /\ subkey(lastGen.a) = subkey(lastGen.b))
  => /\ lastGen.base = BaseCall(lastGen.a, lastGen.b)
     /\ lastGen.err = ""
     /\ Between(lastGen.a, lastGen.key, lastGen.b)

\* two enveloped keys generated in the same gap
C15_Witness ==
  /\ lastGen.done
  /\ lastGen.a # Null /\ lastGen.b # Null
  /\ Len(lastGen.a) > 33 /\ Len(lastGen.b) > 33
  /\ StrLess(lastGen.a, lastGen.b)
  /\ subkey(lastGen.a) = subkey(lastGen.b)
  /\ lastGen.err = ""

\* C19: a returned key is base + '0' + suffix, base the generateKeyBetween
\* result and suffix 32 characters none of which is '0'; so it has more than
\* 33 characters and its subkey is base.
C19_LayeredFormat ==
  (lastGen.done /\ lastGen.err = "")
  => LET base == lastGen.baseKey
         key == lastGen.key
     IN /\ lastGen.base.made
        /\ base = generateKeyBetween(lastGen.base.lo, lastGen.base.hi)
        /\ IsStr(base)
        /\ Len(key) = Len(base) + 33
        /\ SubSeq(key, 1, Len(base)) = base
        /\ key[Len(base) + 1] = 0
        /\ \A i \in (Len(base) + 2)..Len(key) : key[i] # 0
        /\ Len(key) > 33
        /\ subkey(key) = base

C19_Witness ==
  /\ lastGen.done
  /\ lastGen.err = ""
  /\ lastGen.a # Null /\ lastGen.b # Null
  /\ Len(lastGen.key) > 33

\* both writers named items of the snapshot only and assigned a key, to
\* different items, with the same bounds
SameGapWrites ==
  /\ last.op = "merge"
  /\ Distinct(last.pre)
  /\ \A w \in Writers :
       /\ Len(writers[w].calls) = 1
       /\ writers[w].id \in Ids(last.pre)
       /\ writers[w].other \in Ids(last.pre)
  /\ writers[1].id # writers[2].id
  /\ writers[1].lo = writers[2].lo
  /\ writers[1].hi = writers[2].hi

\* C13: two writers that read the same snapshot and each place a different
\* item into the same gap assign distinct keys, so no two items hold equal
\* keys after both writes.
C13_ConcurrentWritesDistinct ==
  SameGapWrites
  => /\ writers[1].key # writers[2].key
     /\ Distinct(items)

====
